---- MODULE Spec2Model ----
(***************************************************************************)
(* RunBatch of sweagent/run/run_fea_bench.py: the batch driver that runs   *)
(* every FEA-Bench instance once, sequentially or on a thread pool, skips  *)
(* instances whose trajectory file proves an earlier completion, and       *)
(* classifies what the Task Executor (_run_instance) raises.               *)
(***************************************************************************)
EXTENDS Integers, Sequences, FiniteSets, TLC

\* ---------------------------------------------------------------- bounds
NumInstances == 3        \* largest len(instances)
MaxWorkers == 2          \* largest requested num_workers

Inst == 1..NumInstances

Min(a, b) == IF a <= b THEN a ELSE b

\* ------------------------------------------------- Python values in play
PyNone == "<None>"
PyFalse == "<False>"
\* (variant: the test written as `is not None`)
Truthy_is_not_None(v) == v # PyNone
\* truth value of an object in `if previous_exit_status := ...`
Truthy(v) == v \notin {PyNone, PyFalse, ""}

\* ------------------------------------------- contents of <id>/<id>.traj
NoFile == "<no file>"
TEmpty == ""
TSpace == "  "
TTrunc == "{\"info\": {\"exit_sta"
TNoInfo == "{\"history\": []}"
TNoStatus == "{\"info\": {}}"
TNull == "{\"info\": {\"exit_status\": null}}"
TEarly == "{\"info\": {\"exit_status\": \"early_exit\"}}"
TSubmitted == "{\"info\": {\"exit_status\": \"submitted\"}}"
TEmptyStatus == "{\"info\": {\"exit_status\": \"\"}}"

TrajTexts ==
    {TEmpty, TSpace, TTrunc, TNoInfo, TNoStatus, TNull, TEarly, TSubmitted, TEmptyStatus}
TrajContents == {NoFile} \cup TrajTexts

\* log_path.exists()
Exists(content) == content # NoFile
\* content.strip()
Strip(content) == IF content \in {TEmpty, TSpace} THEN "" ELSE content
\* json.loads(content) returns (rather than raising JSONDecodeError)
Decodes(content) == content \in {TNoInfo, TNoStatus, TNull, TEarly, TSubmitted, TEmptyStatus}
\* data["info"] is there (no KeyError)
HasInfo(content) == content \in {TNoStatus, TNull, TEarly, TSubmitted, TEmptyStatus}
\* data["info"].get("exit_status", None)
InfoGet(content) ==
    CASE content = TEarly -> "early_exit"
      [] content = TSubmitted -> "submitted"
      [] content = TEmptyStatus -> ""
      [] OTHER -> PyNone

\* ------------------------------------------------------------ should_skip
\* What one call of should_skip does: the value it returns, whether an
\* exception leaves it instead, and the file it leaves behind.  unlink1 and
\* unlink2 tell whether the first and the second log_path.unlink() of the
\* call succeed (an OSError otherwise).
Returned(v, file) == [ret |-> v, raised |-> FALSE, file |-> file]
Raised(file) == [ret |-> PyNone, raised |-> TRUE, file |-> file]

\* (variant: the no-exit-status branch returns without unlinking)
should_skip_keeps_stale(redo, content, unlink1, unlink2) ==
    IF redo THEN Returned(PyFalse, content)
    ELSE IF ~Exists(content) THEN Returned(PyFalse, content)
    ELSE IF Strip(content) = ""
         THEN IF unlink1 THEN Returned(PyFalse, NoFile) ELSE Raised(content)
    ELSE IF ~Decodes(content) \/ ~HasInfo(content)
         THEN IF unlink1 THEN Returned(PyFalse, NoFile) ELSE Raised(content)
    ELSE IF InfoGet(content) = "early_exit" \/ InfoGet(content) = PyNone
         THEN Returned(PyFalse, content)
    ELSE Returned(InfoGet(content), content)

\* (variant: without the `if self._redo_existing` test)
should_skip_ignores_redo(redo, content, unlink1, unlink2) ==
    IF ~Exists(content) THEN Returned(PyFalse, content)
    ELSE IF Strip(content) = ""
         THEN IF unlink1 THEN Returned(PyFalse, NoFile) ELSE Raised(content)
    ELSE IF ~Decodes(content) \/ ~HasInfo(content)
         THEN IF unlink1 THEN Returned(PyFalse, NoFile) ELSE Raised(content)
    ELSE IF InfoGet(content) = "early_exit" \/ InfoGet(content) = PyNone
         THEN IF unlink1 THEN Returned(PyFalse, NoFile)
              ELSE IF unlink2 THEN Returned(PyFalse, NoFile) ELSE Raised(content)
    ELSE Returned(InfoGet(content), content)

\* (variant: the unlink of the no-exit-status branch placed after the `if`,
\* so that it runs for every parsed file)
should_skip_unlinks_parsed(redo, content, unlink1, unlink2) ==
    IF redo THEN Returned(PyFalse, content)
    ELSE IF ~Exists(content) THEN Returned(PyFalse, content)
    ELSE IF Strip(content) = ""
         THEN IF unlink1 THEN Returned(PyFalse, NoFile) ELSE Raised(content)
    ELSE IF ~Decodes(content) \/ ~HasInfo(content)
         THEN IF unlink1 THEN Returned(PyFalse, NoFile) ELSE Raised(content)
    ELSE IF InfoGet(content) = "early_exit" \/ InfoGet(content) = PyNone
         THEN IF unlink1 THEN Returned(PyFalse, NoFile)
              ELSE IF unlink2 THEN Returned(PyFalse, NoFile) ELSE Raised(content)
    ELSE IF unlink1 THEN Returned(InfoGet(content), NoFile) ELSE Raised(content)

should_skip(redo, content, unlink1, unlink2) ==
    IF redo THEN Returned(PyFalse, content)
    ELSE IF ~Exists(content) THEN Returned(PyFalse, content)
    ELSE IF Strip(content) = ""
         THEN IF unlink1 THEN Returned(PyFalse, NoFile) ELSE Raised(content)
    ELSE IF ~Decodes(content) \/ ~HasInfo(content)
         THEN \* except Exception: unlink, return False
              IF unlink1 THEN Returned(PyFalse, NoFile) ELSE Raised(content)
    ELSE IF InfoGet(content) = "early_exit" \/ InfoGet(content) = PyNone
         THEN IF unlink1 THEN Returned(PyFalse, NoFile)
              \* the OSError of the unlink in the try block is caught by
              \* `except Exception`, whose handler unlinks again
              ELSE IF unlink2 THEN Returned(PyFalse, NoFile) ELSE Raised(content)
    ELSE Returned(InfoGet(content), content)

\* ------------------------------------------------------- progress statuses
NoStatus == [kind |-> "none", detail |-> ""]
Skipped(prior) == [kind |-> "skipped", detail |-> prior]
ExitStatus(s) == [kind |-> "exit", detail |-> s]
Uncaught == [kind |-> "uncaught", detail |-> "Exception"]

\* what _run_instance can do: return a result, raise an ordinary Exception,
\* raise SystemExit / ModelConfigurationError / TotalCostLimitExceededError,
\* or raise KeyboardInterrupt
Outcomes == {"ok", "error", "fatal", "interrupt"}

\* ------------------------------------------------ what a trajectory proves
\* The record an earlier run left for an instance, as the data model sorts
\* it: no file, a file that is no evidence of completion (blank, unparsable,
\* or without a final exit status), or a completed record with its status.
Unseen == [class |-> "unseen", exit_status |-> PyNone]
Evidence(content) ==
    IF content = NoFile THEN [class |-> "missing", exit_status |-> PyNone]
    ELSE IF content \in {TEmpty, TSpace} THEN [class |-> "blank", exit_status |-> PyNone]
    ELSE IF content \in {TTrunc, TNoInfo}
         THEN [class |-> "unparsable", exit_status |-> PyNone]
    ELSE IF content \in {TNoStatus, TNull, TEarly}
         THEN [class |-> "no_status", exit_status |-> PyNone]
    ELSE [class |-> "complete", exit_status |-> InfoGet(content)]
Stale == {"blank", "unparsable", "no_status"}

\* ---------------------------------- <id>.traj on disk, as the run knows it
AsLeft == "<as an earlier run left it>"
Kept == "<the earlier run's file>"
AfterRun == "<as the Task Executor left it>"

\* ------------------------------------------------- agent_config.model.id
ModelIds == {"human", "human_thought", "gpt-4o"}

\* the _model_id property: self.agent_config.model.id, or "unknown" when the
\* attribute lookup fails, as it does while self.agent_config is not assigned
_model_id(assigned, id) == IF assigned THEN id ELSE "unknown"

\* --------------------------------------------------- the .jsonl manifest
\* config.instances.path: no file there, or the file's lines.  A line is
\* blank, a record with every key the conversion reads, or a record without
\* its "repo" key.
NoManifest == <<"<no file>">>
Lines == {"", "record", "record without repo"}
Manifests == {NoManifest} \cup UNION {[1..k -> Lines] : k \in 0..NumInstances}
\* a manifest that converts to n instances, one per line
Records(n) == [k \in 1..n |-> "record"]

\* FEABenchInstances.get_instance_configs: FileNotFoundError without the
\* file; else the records of the non-blank lines, without those whose
\* conversion raises KeyError
get_instance_configs(path) ==
    IF path = NoManifest
    THEN [ret |-> <<>>, raised |-> TRUE]
    ELSE [ret |-> SelectSeq(SelectSeq(path, LAMBDA line : line # ""),
                            LAMBDA data : data = "record"),
          raised |-> FALSE]

\* ------------------------------------------------------------- the hooks
MaxHooks == 2
\* a hook's on_init returns, or raises to reject the run
HookLists == UNION {[1..k -> {"returns", "raises"}] : k \in 0..MaxHooks}
\* `hooks or [SaveApplyPatchHook(show_success_message=False)]`
HooksOrDefault(list) == IF list = <<>> THEN <<"returns">> ELSE list
\* the place of the first hook whose on_init raises, 0 if none does
FirstRaising(list) ==
    IF \E k \in DOMAIN list : list[k] = "raises"
    THEN CHOOSE k \in DOMAIN list :
            list[k] = "raises" /\ \A l \in 1..(k - 1) : list[l] = "returns"
    ELSE 0

VARIABLES
    manifest,           \* config.instances.path: NoManifest or the file's lines
    model_id,           \* agent_config.model.id
    n_instances,        \* len(self.instances)
    requested,          \* num_workers the RunBatch was constructed with
    redo_existing,      \* self._redo_existing
    raise_exceptions,   \* self._raise_exceptions
    main_pc,            \* where main() is
    main_exc,           \* the exception propagating out of main(), "none" if none
    cancel,             \* what made the driver stop admitting instances, or "none"
    cur,                \* main_single_worker: index of the for loop
    reports,            \* number of print_report calls
    merges,             \* number of merge_predictions calls
    preds,              \* <output_dir>/preds.json: what merge_predictions wrote
    hook_events,        \* CombinedRunHooks: run-level callbacks, in order
    queue,              \* ThreadPoolExecutor: submitted, not yet taken work items
    running,            \* ThreadPoolExecutor: the work items its threads are running
    consumed,           \* as_completed: the futures whose result() main has taken
    pc,                 \* where each instance's run_instance call is
    exc,                \* the exception that left run_instance, "none" if none
    traj,               \* <output_dir>/<id>/<id>.traj: AsLeft, NoFile, Kept, AfterRun
    evidence,           \* what should_skip was given: Evidence of the file's text
    outcome,            \* how the instance's _run_instance call ended, "none" before
    status,             \* Progress Tracker: terminal status per instance
    started,            \* Progress Tracker: ids on_instance_start was called for
    n_completed,        \* Progress Tracker: n_completed
    handlers,           \* ids whose per-instance log file handlers are attached
    delayed,            \* ids whose run_instance call slept a start delay that can be positive
    executed,           \* number of _run_instance calls per instance
    trace,              \* the calls one run_instance call made, in order
    hooks,              \* __init__'s argument `hooks`: per hook, what its on_init does
    chooks,             \* self._chooks: the registered hooks, by their place in the list
    agent_config_name,  \* self.agent_config.name: 0 as configured, else an instance id
    built               \* per instance, the name its agent and its replay config carry

config == <<manifest, model_id, n_instances, requested, redo_existing, raise_exceptions>>
mainv == <<main_pc, main_exc, cancel, cur, reports, merges, preds, hook_events>>
poolv == <<queue, running, consumed>>
instv == <<pc, exc, traj, evidence, outcome, status, started, n_completed, handlers, delayed,
           executed>>
namev == <<agent_config_name, built>>
hookv == <<hooks, chooks>>
vars == <<config, mainv, poolv, instv, trace, namev, hookv>>

\* (variant: the requested count taken as it is)
num_workers_unclamped == requested

\* self._num_workers = min(num_workers, len(instances))
num_workers == Min(requested, n_instances)

\* self.instances, by position in the list
Loaded == 1..n_instances

\* What the run holds before its first instance, whatever it was constructed
\* with.  What an earlier run left in an instance's trajectory file is an
\* input of the run: its text is drawn when should_skip looks at it, the only
\* time the run reads it.
Fresh ==
    /\ requested \in 0..MaxWorkers
    /\ redo_existing \in BOOLEAN
    /\ raise_exceptions \in BOOLEAN
    /\ main_exc = "none"
    /\ cancel = "none"
    /\ cur = 1
    /\ reports = 0
    /\ merges = 0
    /\ preds = <<>>
    /\ queue = <<>>
    /\ running = {}
    /\ consumed = {}
    /\ pc = [i \in Inst |-> "queued"]
    /\ exc = [i \in Inst |-> "none"]
    /\ traj = [i \in Inst |-> AsLeft]
    /\ evidence = [i \in Inst |-> Unseen]
    /\ outcome = [i \in Inst |-> "none"]
    /\ status = [i \in Inst |-> NoStatus]
    /\ started = {}
    /\ n_completed = 0
    /\ handlers = {}
    /\ delayed = {}
    /\ executed = [i \in Inst |-> 0]
    /\ trace = <<>>
    /\ agent_config_name = 0
    /\ built = [i \in Inst |-> [agent |-> 0, replay |-> 0]]

\* The state after RunBatch.__init__ for a batch run by a language model:
\* nothing after the constructor depends on the model id.
Init ==
    /\ n_instances \in 0..NumInstances
    /\ manifest = Records(n_instances)
    /\ model_id = "gpt-4o"
    /\ hooks = <<>>
    /\ chooks = <<1>>
    /\ main_pc = "start"
    /\ hook_events = <<"on_init">>
    /\ Fresh

\* The arguments RunBatch.__init__ is called with, for any model id.
InitNew ==
    /\ n_instances \in 0..NumInstances
    /\ manifest = Records(n_instances)
    /\ model_id \in ModelIds
    /\ hooks = <<>>
    /\ chooks = <<>>
    /\ main_pc = "new"
    /\ hook_events = <<>>
    /\ Fresh

\* The configuration RunBatch.from_config is called with, for any manifest.
InitFromConfig ==
    /\ manifest \in Manifests
    /\ n_instances = 0
    /\ model_id = "gpt-4o"
    /\ hooks = <<>>
    /\ chooks = <<>>
    /\ main_pc = "from_config"
    /\ hook_events = <<>>
    /\ Fresh

\* The arguments RunBatch.__init__ is called with, for any list of hooks.
InitHooks ==
    /\ n_instances \in 0..NumInstances
    /\ manifest = Records(n_instances)
    /\ model_id = "gpt-4o"
    /\ hooks \in HookLists
    /\ chooks = <<>>
    /\ main_pc = "new"
    /\ hook_events = <<>>
    /\ Fresh

\* ------------------------------------------------------------ from_config
\* (variant: from_config without `if not instances: raise ValueError`)
FromConfig_unchecked ==
    /\ main_pc = "from_config"
    /\ LET instances == get_instance_configs(manifest) IN
         IF instances.raised
         THEN /\ main_pc' = "raised"
              /\ main_exc' = "FileNotFoundError"
              /\ UNCHANGED n_instances
         ELSE /\ main_pc' = "new"
              /\ n_instances' = Len(instances.ret)
              /\ UNCHANGED main_exc
    /\ UNCHANGED <<manifest, model_id, requested, redo_existing, raise_exceptions>>
    /\ UNCHANGED <<hookv, namev, trace, cancel, cur, reports, merges, preds, hook_events, poolv, instv>>

\* from_config, lines 237-252: load the instances, refuse an empty list,
\* else construct the RunBatch
FromConfig ==
    /\ main_pc = "from_config"
    /\ LET instances == get_instance_configs(manifest) IN
         IF instances.raised
         THEN /\ main_pc' = "raised"
              /\ main_exc' = "FileNotFoundError"
              /\ UNCHANGED n_instances
         ELSE IF instances.ret = <<>>
         THEN /\ main_pc' = "raised"
              /\ main_exc' = "ValueError"
              /\ UNCHANGED n_instances
         ELSE /\ main_pc' = "new"
              /\ n_instances' = Len(instances.ret)
              /\ UNCHANGED main_exc
    /\ UNCHANGED <<manifest, model_id, requested, redo_existing, raise_exceptions>>
    /\ UNCHANGED <<hookv, namev, trace, cancel, cur, reports, merges, preds, hook_events, poolv, instv>>

\* ---------------------------------------------------------------- __init__
\* the on_init calls of the first n hooks of the list
OnInits(n) == [k \in 1..n |-> "on_init"]

\* (variant: add_hook that registers the hook before it calls on_init)
New_registers_first ==
    /\ main_pc = "new"
    /\ LET list == HooksOrDefault(hooks)
           raising == FirstRaising(list)
       IN  IF _model_id(FALSE, model_id) \in {"human", "human_thought"} /\ requested > 1
           THEN /\ main_pc' = "raised"
                /\ main_exc' = "ValueError"
                /\ UNCHANGED <<hook_events, chooks>>
           ELSE IF raising # 0
           THEN /\ main_pc' = "raised"
                /\ main_exc' = "on_init"
                /\ hook_events' = hook_events \o OnInits(raising)
                /\ chooks' = [k \in 1..raising |-> k]
           ELSE /\ main_pc' = "start"
                /\ hook_events' = hook_events \o OnInits(Len(list))
                /\ chooks' = [k \in 1..Len(list) |-> k]
                /\ UNCHANGED main_exc
    /\ hooks' = <<>>
    /\ UNCHANGED <<namev, trace, config, cancel, cur, reports, merges, preds, poolv, instv>>

\* __init__, lines 199-222: the human-model test, made before
\* self.agent_config is assigned, then the attributes and, hook by hook in
\* list order, add_hook (lines 256-258): on_init, then the registration.  An
\* on_init that raises ends the constructor.  The argument `hooks` is gone
\* when __init__ is left.
New ==
    /\ main_pc = "new"
    /\ LET list == HooksOrDefault(hooks)
           raising == FirstRaising(list)
       IN  IF _model_id(FALSE, model_id) \in {"human", "human_thought"} /\ requested > 1
           THEN /\ main_pc' = "raised"
                /\ main_exc' = "ValueError"
                /\ UNCHANGED <<hook_events, chooks>>
           ELSE IF raising # 0
           THEN /\ main_pc' = "raised"
                /\ main_exc' = "on_init"
                /\ hook_events' = hook_events \o OnInits(raising)
                /\ chooks' = [k \in 1..(raising - 1) |-> k]
           ELSE /\ main_pc' = "start"
                /\ hook_events' = hook_events \o OnInits(Len(list))
                /\ chooks' = [k \in 1..Len(list) |-> k]
                /\ UNCHANGED main_exc
    /\ hooks' = <<>>
    /\ UNCHANGED <<namev, trace, config, cancel, cur, reports, merges, preds, poolv, instv>>

\* ------------------------------------------------------------------ main
\* (variant: main() without self._chooks.on_start())
MainStart_without_on_start ==
    /\ main_pc = "start"
    /\ main_pc' = IF num_workers <= 1 THEN "single" ELSE "submit"
    /\ UNCHANGED <<hookv, namev, trace, config, main_exc, cancel, cur, reports, merges, preds, hook_events,
                   poolv, instv>>

\* main(), lines 261-267: on_start hooks, then the driver chosen by
\* self._num_workers
MainStart ==
    /\ main_pc = "start"
    /\ hook_events' = Append(hook_events, "on_start")
    /\ main_pc' = IF num_workers <= 1 THEN "single" ELSE "submit"
    /\ UNCHANGED <<hookv, namev, trace, config, main_exc, cancel, cur, reports, merges, preds, poolv, instv>>

\* (variant: a pool that starts a thread for every work item)
CanEnter_unbounded_pool(i) ==
    \/ main_pc = "single" /\ cur = i /\ i \in Loaded
    \/ queue # <<>> /\ Head(queue) = i

\* (variant: a sequential driver that does not go by the list position)
CanEnter_any_position(i) ==
    \/ main_pc = "single" /\ i \in Loaded
    \/ /\ queue # <<>>
       /\ Head(queue) = i
       /\ Cardinality(running) < num_workers

\* run_instance(i) can be entered: by the for loop of main_single_worker, or
\* by a thread of the pool that is free to take the oldest queued work item
CanEnter(i) ==
    \/ main_pc = "single" /\ cur = i /\ i \in Loaded
    \/ /\ queue # <<>>
       /\ Head(queue) = i
       /\ Cardinality(running) < num_workers

\* the thread that is inside run_instance(i)
OnThread(i) ==
    \/ main_pc = "single" /\ cur = i
    \/ i \in running

\* (variant: a work item that stays in the queue when a thread takes it)
Take_leaves_item(i) == queue

\* a pool thread takes the work item / sets the future's result or exception
\* and is free again
Take(i) == IF queue # <<>> /\ Head(queue) = i THEN Tail(queue) ELSE queue

\* run_instance, lines 307-308: the largest start delay the call can sleep,
\* in units of random_delay_multiplier (random.random() is below 1)
max_delay == IF n_completed < num_workers THEN num_workers - 1 ELSE 0

\* run_instance, lines 304-320: log handlers, start delay, on_instance_start,
\* the skip check with its skip branch, or else the entry of _run_instance
RunInstanceBegin(i) ==
    /\ pc[i] = "queued"
    /\ CanEnter(i)
    /\ queue' = Take(i)
    /\ delayed' = IF max_delay > 0 THEN delayed \cup {i} ELSE delayed
    /\ started' = started \cup {i}
    /\ \E content \in TrajContents, unlink1 \in BOOLEAN, unlink2 \in BOOLEAN :
         LET r == should_skip(redo_existing, content, unlink1, unlink2) IN
         /\ evidence' = [evidence EXCEPT ![i] = Evidence(content)]
         /\ traj' = [traj EXCEPT ![i] = IF r.file = NoFile THEN NoFile ELSE Kept]
         /\ IF r.raised
            THEN \* the OSError leaves should_skip and run_instance
                 /\ pc' = [pc EXCEPT ![i] = "raised"]
                 /\ exc' = [exc EXCEPT ![i] = "OSError"]
                 /\ handlers' = handlers \cup {i}
                 /\ UNCHANGED <<status, n_completed, executed, running>>
            ELSE IF Truthy(r.ret)
            THEN /\ status' = [status EXCEPT ![i] = Skipped(r.ret)]
                 /\ n_completed' = n_completed + 1
                 /\ pc' = [pc EXCEPT ![i] = "done"]
                 /\ UNCHANGED <<exc, handlers, executed, running>>
            ELSE /\ pc' = [pc EXCEPT ![i] = "exec"]
                 /\ executed' = [executed EXCEPT ![i] = @ + 1]
                 /\ handlers' = handlers \cup {i}
                 /\ running' = IF main_pc = "single" THEN running ELSE running \cup {i}
                 /\ UNCHANGED <<exc, status, n_completed>>
    /\ UNCHANGED <<hookv, namev, trace, config, mainv, consumed, outcome>>

\* run_instance, lines 304-317, on the main thread: a KeyboardInterrupt that
\* arrives while should_skip runs, before the try statement of line 319 is
\* entered, leaves run_instance as it is (signals reach only the main
\* thread, which runs run_instance in the sequential driver)
RunInstanceKeyboardInterrupt(i) ==
    /\ pc[i] = "queued"
    /\ main_pc = "single" /\ cur = i /\ i \in Loaded
    /\ started' = started \cup {i}
    /\ handlers' = handlers \cup {i}
    /\ pc' = [pc EXCEPT ![i] = "raised"]
    /\ exc' = [exc EXCEPT ![i] = "KeyboardInterrupt"]
    /\ delayed' = IF max_delay > 0 THEN delayed \cup {i} ELSE delayed
    /\ UNCHANGED <<hookv, namev, trace, config, mainv, poolv, traj, evidence, outcome, status, n_completed,
                   executed>>

\* (variant: `except Exception` that ends the loop like a run-fatal error)
Classify_error_breaks(result, strict) ==
    CASE result = "ok" -> "none"
      [] result = "interrupt" -> "_BreakLoop"
      [] result = "fatal" -> IF strict THEN "fatal" ELSE "_BreakLoop"
      [] result = "error" -> IF strict THEN "error" ELSE "_BreakLoop"

\* the exception that leaves run_instance for an outcome of _run_instance
Classify(result, strict) ==
    CASE result = "ok" -> "none"
      [] result = "interrupt" -> "_BreakLoop"
      [] result = "fatal" -> IF strict THEN "fatal" ELSE "_BreakLoop"
      [] result = "error" -> IF strict THEN "error" ELSE "none"

\* the terminal status run_instance records for an outcome of _run_instance
Terminal(result) ==
    CASE result = "ok" -> ExitStatus("submitted")
      [] result = "error" -> Uncaught
      [] OTHER -> NoStatus

\* run_instance, lines 320-340: _run_instance ends, its outcome is classified
RunInstanceFinish(i) ==
    /\ OnThread(i)
    /\ pc[i] = "exec"
    /\ \E result \in Outcomes :
         /\ outcome' = [outcome EXCEPT ![i] = result]
         /\ status' = [status EXCEPT ![i] = Terminal(result)]
         /\ n_completed' = IF Terminal(result) # NoStatus THEN n_completed + 1
                           ELSE n_completed
         /\ exc' = [exc EXCEPT ![i] = Classify(result, raise_exceptions)]
         /\ pc' = [pc EXCEPT ![i] =
                     IF Classify(result, raise_exceptions) = "none" THEN "done"
                     ELSE "raised"]
    /\ traj' = [traj EXCEPT ![i] = AfterRun]
    /\ evidence' = [evidence EXCEPT ![i] = Unseen]
    /\ handlers' = handlers \ {i}
    /\ running' = running \ {i}
    /\ UNCHANGED <<hookv, namev, trace, config, mainv, queue, consumed, started, delayed, executed>>

\* (variant: `except _BreakLoop` that logs and goes on with the next instance)
SingleNext_continue_on_break ==
    /\ main_pc = "single"
    /\ cur <= n_instances
    /\ pc[cur] \in {"done", "raised"}
    /\ IF pc[cur] = "done" \/ exc[cur] = "_BreakLoop"
       THEN /\ cur' = cur + 1
            /\ UNCHANGED <<main_pc, main_exc>>
       ELSE /\ main_pc' = "raised"
            /\ main_exc' = exc[cur]
            /\ UNCHANGED cur
    /\ UNCHANGED <<hookv, namev, trace, config, cancel, reports, merges, preds, hook_events, poolv, instv>>

\* (variant: `except _BreakLoop` that returns from main() instead of `break`)
SingleNext_break_returns ==
    /\ main_pc = "single"
    /\ cur <= n_instances
    /\ pc[cur] \in {"done", "raised"}
    /\ IF pc[cur] = "done"
       THEN /\ cur' = cur + 1
            /\ UNCHANGED <<main_pc, main_exc, cancel>>
       ELSE IF exc[cur] = "_BreakLoop"
       THEN /\ main_pc' = "returned"
            /\ cancel' = "_BreakLoop"
            /\ UNCHANGED <<cur, main_exc>>
       ELSE /\ main_pc' = "raised"
            /\ main_exc' = exc[cur]
            /\ UNCHANGED <<cur, cancel>>
    /\ UNCHANGED <<hookv, namev, trace, config, reports, merges, preds, hook_events, poolv, instv>>

\* main_single_worker, lines 278-283: the for loop around run_instance
SingleNext ==
    /\ main_pc = "single"
    /\ cur <= n_instances
    /\ pc[cur] \in {"done", "raised"}
    /\ IF pc[cur] = "done"
       THEN /\ cur' = cur + 1
            /\ UNCHANGED <<main_pc, main_exc, cancel>>
       ELSE IF exc[cur] = "_BreakLoop"
       THEN /\ main_pc' = "merge"
            /\ cancel' = "_BreakLoop"
            /\ UNCHANGED <<cur, main_exc>>
       ELSE /\ main_pc' = "raised"
            /\ main_exc' = exc[cur]
            /\ UNCHANGED <<cur, cancel>>
    /\ UNCHANGED <<hookv, namev, trace, config, reports, merges, preds, hook_events, poolv, instv>>

\* main_single_worker: the for loop is exhausted
SingleDone ==
    /\ main_pc = "single"
    /\ cur > n_instances
    /\ main_pc' = "merge"
    /\ UNCHANGED <<hookv, namev, trace, config, main_exc, cancel, cur, reports, merges, preds, hook_events, poolv, instv>>

\* main_multi_worker, line 292: every instance is submitted, in input order
Submit ==
    /\ main_pc = "submit"
    /\ queue' = [k \in 1..n_instances |-> k]
    /\ main_pc' = "wait"
    /\ UNCHANGED <<hookv, namev, trace, config, main_exc, cancel, cur, reports, merges, preds, hook_events, running,
                   consumed, instv>>

\* executor.shutdown(wait=False, cancel_futures=True)
CancelQueued ==
    /\ queue' = <<>>
    /\ pc' = [i \in Inst |->
                IF \E k \in 1..Len(queue) : queue[k] = i THEN "cancelled" ELSE pc[i]]

Finished(i) == pc[i] \in {"done", "raised"}

\* (variant: `except KeyboardInterrupt` only, so that _BreakLoop leaves the driver)
AsCompleted_reraises_break ==
    /\ main_pc = "wait"
    /\ \E i \in Loaded \ consumed :
         /\ Finished(i)
         /\ IF exc[i] = "none"
            THEN /\ consumed' = consumed \cup {i}
                 /\ UNCHANGED <<main_pc, main_exc, cancel, queue, pc>>
            ELSE /\ main_exc' = exc[i]
                 /\ main_pc' = "report"
                 /\ consumed' = {}
                 /\ UNCHANGED <<cancel, queue, pc>>
    /\ UNCHANGED <<hookv, namev, trace, config, cur, reports, merges, preds, hook_events, running, exc, traj,
                   evidence, outcome, status, started, n_completed, handlers, delayed, executed>>

\* main_multi_worker, lines 294-299: as_completed hands over a finished
\* future and future.result() returns or raises
AsCompleted ==
    /\ main_pc = "wait"
    /\ \E i \in Loaded \ consumed :
         /\ Finished(i)
         /\ IF exc[i] = "none"
            THEN /\ consumed' = consumed \cup {i}
                 /\ UNCHANGED <<main_pc, main_exc, cancel, queue, pc>>
            ELSE IF exc[i] = "_BreakLoop"
            THEN /\ CancelQueued
                 /\ cancel' = "_BreakLoop"
                 /\ main_pc' = "report"
                 /\ consumed' = {}
                 /\ UNCHANGED main_exc
            ELSE /\ main_exc' = exc[i]
                 /\ main_pc' = "report"
                 /\ consumed' = {}
                 /\ UNCHANGED <<cancel, queue, pc>>
    /\ UNCHANGED <<hookv, namev, trace, config, cur, reports, merges, preds, hook_events, running, exc, traj,
                   evidence, outcome, status, started, n_completed, handlers, delayed, executed>>

\* main_multi_worker: as_completed is exhausted
AllCompleted ==
    /\ main_pc = "wait"
    /\ consumed = Loaded
    /\ main_pc' = "report"
    /\ consumed' = {}
    /\ UNCHANGED <<hookv, namev, trace, config, main_exc, cancel, cur, reports, merges, preds, hook_events, queue, running,
                   instv>>

\* main_multi_worker, lines 296-299: KeyboardInterrupt in the main thread
\* while it waits in as_completed
Interrupt ==
    /\ main_pc = "wait"
    /\ CancelQueued
    /\ cancel' = "KeyboardInterrupt"
    /\ main_pc' = "report"
    /\ consumed' = {}
    /\ UNCHANGED <<hookv, namev, trace, config, main_exc, cur, reports, merges, preds, hook_events, running,
                   exc, traj, evidence, outcome, status, started, n_completed,
                   handlers, delayed, executed>>

\* (variant: the report in an `else` clause instead of `finally`)
PrintReport_unless_raising ==
    /\ main_pc = "report"
    /\ reports' = IF main_exc = "none" THEN reports + 1 ELSE reports
    /\ main_pc' = "join"
    /\ UNCHANGED <<hookv, namev, trace, config, main_exc, cancel, cur, merges, preds, hook_events, poolv, instv>>

\* main_multi_worker, lines 300-301: finally: print_report()
PrintReport ==
    /\ main_pc = "report"
    /\ reports' = reports + 1
    /\ main_pc' = "join"
    /\ UNCHANGED <<hookv, namev, trace, config, main_exc, cancel, cur, merges, preds, hook_events, poolv, instv>>

\* (variant: a pool that is left without shutdown(wait=True))
Join_without_waiting ==
    /\ main_pc = "join"
    /\ main_pc' = IF main_exc = "none" THEN "merge" ELSE "raised"
    /\ UNCHANGED <<hookv, namev, trace, config, main_exc, cancel, cur, reports, merges, preds, hook_events, poolv, instv>>

\* (variant: a driver that swallows the exception, so that main() goes on)
Join_merges_anyway ==
    /\ main_pc = "join"
    /\ queue = <<>>
    /\ running = {}
    /\ main_pc' = "merge"
    /\ UNCHANGED <<hookv, namev, trace, config, main_exc, cancel, cur, reports, merges, preds, hook_events,
                   poolv, instv>>

\* main_multi_worker, line 291: leaving `with ThreadPoolExecutor` waits until
\* the pool has nothing queued and nothing running (shutdown(wait=True))
Join ==
    /\ main_pc = "join"
    /\ queue = <<>>
    /\ running = {}
    /\ main_pc' = IF main_exc = "none" THEN "merge" ELSE "raised"
    /\ UNCHANGED <<hookv, namev, trace, config, main_exc, cancel, cur, reports, merges, preds, hook_events, poolv, instv>>

\* <output_dir>/<id>/<id>.pred: written by save_predictions when _run_instance
\* got a result from the agent, else as an earlier run left it
Prediction(i) == IF outcome[i] = "ok" THEN AfterRun ELSE AsLeft

\* merge_predictions(directories, output): one entry per directory, in the
\* order given, holding the directory's prediction; an entry whose
\* prediction is AsLeft stands for the earlier run's prediction, left out
\* when there is none
merge_predictions(directories) ==
    [k \in DOMAIN directories |->
        [id |-> directories[k], pred |-> Prediction(directories[k])]]

\* (variant: the directories in the reverse of the input order)
OutputDirs_reversed == [k \in 1..n_instances |-> n_instances + 1 - k]

\* [self.output_dir / instance.problem_statement.id for instance in self.instances]
OutputDirs == [k \in 1..n_instances |-> k]

\* main, lines 269-270: merge_predictions over every instance's directory
Merge ==
    /\ main_pc = "merge"
    /\ merges' = merges + 1
    /\ preds' = merge_predictions(OutputDirs)
    /\ main_pc' = "on_end"
    /\ UNCHANGED <<hookv, namev, trace, config, main_exc, cancel, cur, reports, hook_events, poolv, instv>>

\* main, line 272: the run-end hooks
OnEnd ==
    /\ main_pc = "on_end"
    /\ hook_events' = Append(hook_events, "on_end")
    /\ main_pc' = "returned"
    /\ UNCHANGED <<hookv, namev, trace, config, main_exc, cancel, cur, reports, merges, preds, poolv, instv>>

Next ==
    \/ MainStart
    \/ \E i \in Inst : RunInstanceBegin(i)
    \/ \E i \in Inst : RunInstanceKeyboardInterrupt(i)
    \/ \E i \in Inst : RunInstanceFinish(i)
    \/ SingleNext
    \/ SingleDone
    \/ Submit
    \/ AsCompleted
    \/ AllCompleted
    \/ Interrupt
    \/ PrintReport
    \/ Join
    \/ Merge
    \/ OnEnd

Spec == Init /\ [][Next]_vars

\* the steps of the thread that runs main()
MainStep ==
    \/ MainStart
    \/ SingleNext
    \/ SingleDone
    \/ Submit
    \/ AsCompleted
    \/ AllCompleted
    \/ PrintReport
    \/ Join
    \/ Merge
    \/ OnEnd

\* The run under fair scheduling: the main thread keeps running, a work
\* item that can be started is started, and a _run_instance call ends.  A
\* KeyboardInterrupt may come or not.
Fairness ==
    /\ WF_vars(MainStep)
    /\ \A i \in Inst : WF_vars(RunInstanceBegin(i)) /\ WF_vars(RunInstanceFinish(i))

SpecFair == Init /\ [][Next]_vars /\ Fairness

\* the constructor, and the run of what it constructed
NextNew ==
    \/ New
    \/ Next

SpecNew == InitNew /\ [][NextNew]_vars

SpecHooks == InitHooks /\ [][NextNew]_vars

\* from_config, the constructor it calls, and the run of what it returned
NextFromConfig ==
    \/ FromConfig
    \/ New
    \/ Next

SpecFromConfig == InitFromConfig /\ [][NextFromConfig]_vars

\* ------------------------------------------- one run_instance call, call by call
\* a call run_instance or _run_instance makes; arg is the terminal status
\* it hands to the Progress Tracker, NoStatus for every other call
Ev(op) == [op |-> op, arg |-> NoStatus]
EvStatus(op, st) == [op |-> op, arg |-> st]

\* _run_instance, lines 343-385: its steps, in order.  The set-up is three
\* steps: the agent and its replay config (lines 343-359), the assignment
\* of line 360, the environment and its hooks (lines 361-367).
Calls ==
    <<"get_agent_from_config", "instance.env.name = id", "SWEEnv.from_config",
      "env.start", "_chooks.on_instance_start", "agent.run",
      "env.close", "save_predictions", "_chooks.on_instance_completed">>
\* the calls inside `try:` (lines 369-376)
InTry == {"env.start", "_chooks.on_instance_start", "agent.run"}
CallNames == {Calls[k] : k \in DOMAIN Calls}
Index(call) == CHOOSE k \in DOMAIN Calls : Calls[k] = call
Evs(calls) == [k \in DOMAIN calls |-> Ev(calls[k])]

\* (variant: env.close() after the try block instead of in `finally`)
_run_instance_without_finally(result, raising) ==
    IF result = "ok" THEN Evs(Calls) ELSE Evs(SubSeq(Calls, 1, Index(raising)))

\* (variant: hook callbacks whose exceptions are swallowed)
_run_instance_isolates_hooks(result, raising) ==
    IF result = "ok" THEN Evs(Calls)
    ELSE IF raising \in {"_chooks.on_instance_start", "_chooks.on_instance_completed"}
         THEN Evs(Calls)
    ELSE IF raising \in InTry
         THEN Evs(Append(SubSeq(Calls, 1, Index(raising)), "env.close"))
    ELSE Evs(SubSeq(Calls, 1, Index(raising)))

\* _run_instance: the calls made when it returns a result, or when the
\* call `raising` raises the exception that leaves it
_run_instance(result, raising) ==
    IF result = "ok" THEN Evs(Calls)
    ELSE IF raising \in InTry
         THEN Evs(Append(SubSeq(Calls, 1, Index(raising)), "env.close"))
    ELSE Evs(SubSeq(Calls, 1, Index(raising)))

\* (variant: the skip decision taken before the Progress Tracker is told of
\* the start)
run_instance_skip_first(redo, content, unlink1, unlink2, result, raising) ==
    LET skip == should_skip(redo, content, unlink1, unlink2)
        head == <<Ev("_add_instance_log_file_handlers"), Ev("should_skip")>>
    IN  IF skip.raised THEN head
        ELSE IF Truthy(skip.ret)
        THEN head \o <<EvStatus("on_instance_end", Skipped(skip.ret)),
                       Ev("_remove_instance_log_file_handlers")>>
        ELSE head \o <<Ev("on_instance_start")>>
             \o _run_instance(result, raising)
             \o (CASE result = "ok" -> <<EvStatus("on_instance_end", Terminal(result))>>
                   [] result = "error" ->
                        <<EvStatus("on_uncaught_exception", Terminal(result))>>
                   [] OTHER -> <<>>)
             \o <<Ev("update_exit_status_table"), Ev("_remove_instance_log_file_handlers")>>

\* (variant: on_instance_end in the `finally` clause instead of `else`)
run_instance_end_in_finally(redo, content, unlink1, unlink2, result, raising) ==
    LET skip == should_skip(redo, content, unlink1, unlink2)
        head == <<Ev("_add_instance_log_file_handlers"), Ev("on_instance_start"),
                  Ev("should_skip")>>
    IN  IF skip.raised THEN head
        ELSE IF Truthy(skip.ret)
        THEN head \o <<EvStatus("on_instance_end", Skipped(skip.ret)),
                       Ev("_remove_instance_log_file_handlers")>>
        ELSE head
             \o _run_instance(result, raising)
             \o (CASE result = "error" ->
                        <<EvStatus("on_uncaught_exception", Terminal(result))>>
                   [] OTHER -> <<>>)
             \o <<EvStatus("on_instance_end", Terminal("ok")),
                  Ev("update_exit_status_table"), Ev("_remove_instance_log_file_handlers")>>

\* run_instance, lines 306-340: the calls it makes, for the text should_skip
\* finds in the trajectory file, what its unlinks do, and how _run_instance
\* ends
run_instance(redo, content, unlink1, unlink2, result, raising) ==
    LET skip == should_skip(redo, content, unlink1, unlink2)
        head == <<Ev("_add_instance_log_file_handlers"), Ev("on_instance_start"),
                  Ev("should_skip")>>
    IN  IF skip.raised THEN head
        ELSE IF Truthy(skip.ret)
        THEN head \o <<EvStatus("on_instance_end", Skipped(skip.ret)),
                       Ev("_remove_instance_log_file_handlers")>>
        ELSE head
             \o _run_instance(result, raising)
             \o (CASE result = "ok" -> <<EvStatus("on_instance_end", Terminal(result))>>
                   [] result = "error" ->
                        <<EvStatus("on_uncaught_exception", Terminal(result))>>
                   [] OTHER -> <<>>)
             \o <<Ev("update_exit_status_table"), Ev("_remove_instance_log_file_handlers")>>

\* An instance as the manifest's record was converted, and as it is after
\* the steps t of a run_instance call
Descriptor(i) == [id |-> i, env_name |-> "<as constructed>"]
descriptor_after(t, i) ==
    IF \E k \in DOMAIN t : t[k].op = "instance.env.name = id"
    THEN [id |-> i, env_name |-> "<the instance's id>"]
    ELSE Descriptor(i)

\* A RunBatch about to call run_instance on one of its instances.
InitCall ==
    /\ n_instances \in 1..NumInstances
    /\ manifest = Records(n_instances)
    /\ model_id = "gpt-4o"
    /\ hooks = <<>>
    /\ chooks = <<1>>
    /\ main_pc = "run_instance"
    /\ hook_events = <<"on_init", "on_start">>
    /\ Fresh

\* one call of run_instance, from its first line to its last
RunInstanceCall(i) ==
    /\ main_pc = "run_instance"
    /\ i \in Loaded
    /\ trace = <<>>
    /\ \E content \in TrajContents, unlink1, unlink2 \in BOOLEAN,
          result \in Outcomes, raising \in CallNames :
         LET skip == should_skip(redo_existing, content, unlink1, unlink2)
             ran == ~skip.raised /\ ~Truthy(skip.ret)
         IN  /\ trace' = run_instance(redo_existing, content, unlink1, unlink2,
                                      result, raising)
             /\ evidence' = [evidence EXCEPT ![i] = Evidence(content)]
             /\ outcome' = [outcome EXCEPT ![i] = IF ran THEN result ELSE "none"]
             /\ executed' = [executed EXCEPT ![i] = IF ran THEN 1 ELSE 0]
             /\ exc' = [exc EXCEPT ![i] =
                            IF skip.raised THEN "OSError"
                            ELSE IF ran THEN Classify(result, raise_exceptions)
                            ELSE "none"]
             /\ pc' = [pc EXCEPT ![i] = IF exc'[i] = "none" THEN "done" ELSE "raised"]
    /\ delayed' = IF max_delay > 0 THEN delayed \cup {i} ELSE delayed
    /\ UNCHANGED <<hookv, namev, config, mainv, poolv, traj, status, started, n_completed, handlers>>

NextCall == \E i \in Inst : RunInstanceCall(i)

SpecCall == InitCall /\ [][NextCall]_vars

\* ------------------------------- the set-up of _run_instance, step by step
\* The pool's threads in lines 345-355 of _run_instance, one statement at a
\* time: all of them write and read the one self.agent_config.  (The other
\* specifications take _run_instance as one step and do not follow the
\* name.)
InitSetup ==
    /\ n_instances \in 1..NumInstances
    /\ manifest = Records(n_instances)
    /\ model_id = "gpt-4o"
    /\ hooks = <<>>
    /\ chooks = <<1>>
    /\ main_pc = "_run_instance"
    /\ hook_events = <<"on_init", "on_start">>
    /\ Fresh

\* the threads there are to run instances: the pool's, or the main thread
Threads == IF num_workers <= 1 THEN 1 ELSE num_workers

\* line 345: self.agent_config.name = f"{instance.problem_statement.id}"
SetName(i) ==
    /\ main_pc = "_run_instance"
    /\ i \in Loaded
    /\ pc[i] = "queued"
    /\ Cardinality({j \in Loaded : pc[j] \in {"named", "agent"}}) < Threads
    /\ agent_config_name' = i
    /\ pc' = [pc EXCEPT ![i] = "named"]
    /\ UNCHANGED <<hookv, built, trace, config, mainv, poolv, exc, traj, evidence, outcome, status,
                   started, n_completed, handlers, delayed, executed>>

\* line 346: agent = get_agent_from_config(self.agent_config)
GetAgent(i) ==
    /\ main_pc = "_run_instance"
    /\ pc[i] = "named"
    /\ built' = [built EXCEPT ![i].agent = agent_config_name]
    /\ pc' = [pc EXCEPT ![i] = "agent"]
    /\ UNCHANGED <<hookv, agent_config_name, trace, config, mainv, poolv, exc, traj, evidence,
                   outcome, status, started, n_completed, handlers, delayed, executed>>

\* lines 348-355: RunSingleConfig(agent=self.agent_config, ...) and its dump
\* to <id>.config.yaml; the thread then goes on with the rest of the call
ReplayConfig(i) ==
    /\ main_pc = "_run_instance"
    /\ pc[i] = "agent"
    /\ built' = [built EXCEPT ![i].replay = agent_config_name]
    /\ pc' = [pc EXCEPT ![i] = "exec"]
    /\ UNCHANGED <<hookv, agent_config_name, trace, config, mainv, poolv, exc, traj, evidence,
                   outcome, status, started, n_completed, handlers, delayed, executed>>

NextSetup ==
    \/ \E i \in Inst : SetName(i)
    \/ \E i \in Inst : GetAgent(i)
    \/ \E i \in Inst : ReplayConfig(i)

SpecSetup == InitSetup /\ [][NextSetup]_vars

\* ======================================================== resumability
\* C1: with redo_existing=false, an instance whose trajectory file is a
\* completed record (it parses and info.exit_status is non-null and not
\* "early_exit") is never handed to _run_instance and gets the terminal status
\* "skipped (<prior exit_status>)".
C1_CompleteIsSkipped ==
    ~redo_existing =>
        \A i \in Loaded :
            evidence[i].class = "complete" =>
                /\ executed[i] = 0
                /\ status[i] = Skipped(evidence[i].exit_status)

C3_SkipOnlyOnComplete ==
    \A i \in Loaded :
        status[i].kind = "skipped" =>
            /\ ~redo_existing
            /\ evidence[i].class = "complete"
            /\ status[i].detail = evidence[i].exit_status
            /\ status[i].detail \notin {PyNone, "early_exit"}
            /\ executed[i] = 0

C3_Witness ==
    \E i \in Loaded : status[i].kind = "skipped" /\ pc[i] = "done"

\* C4: with redo_existing=false, whenever _run_instance is entered for an
\* instance, no trajectory file of an earlier run exists for it.
C4_NoOldFileWhenExecuted ==
    ~redo_existing => \A i \in Loaded : pc[i] = "exec" => traj[i] = NoFile

\* C5: an I/O error of the unlink in should_skip is only logged: whatever the
\* unlink does, should_skip answers not-skip for a stale file, no exception
\* leaves run_instance, and the instance is executed.
C5_UnlinkErrorIsContained ==
    ~redo_existing =>
        \A i \in Loaded :
            evidence[i].class \in Stale =>
                exc[i] = "none" /\ pc[i] = "exec" /\ executed[i] = 1

\* C6: with redo_existing=true no instance is skipped, whatever its
\* trajectory file holds: every instance run_instance is called for is handed
\* to _run_instance, and a run that nothing stops executes every instance.
C6_RedoRunsEverything ==
    redo_existing =>
        /\ \A i \in Loaded :
             /\ status[i].kind # "skipped"
             /\ (pc[i] \notin {"queued", "cancelled"} /\ exc[i] # "KeyboardInterrupt")
                    => executed[i] = 1
        /\ (main_pc = "returned" /\ \A i \in Loaded : pc[i] = "done")
               => \A i \in Loaded : executed[i] = 1

C6_Witness ==
    /\ redo_existing
    /\ \E i, j \in Loaded :
         /\ pc[i] = "exec" /\ evidence[i].class = "complete"
         /\ evidence[i].exit_status = "submitted"
         /\ pc[j] = "exec" /\ evidence[j].class \in Stale

\* C7: should_skip never deletes a completed record, and it deletes a file
\* only when redo_existing=false and the file is blank, unparsable or without
\* a final exit status: a missing file, and any file under redo_existing=true,
\* is left as it was.
Deleted(i) == evidence[i].class \notin {"unseen", "missing"} /\ traj[i] = NoFile

C7_OnlyStaleIsDeleted ==
    \A i \in Loaded :
        /\ Deleted(i) => ~redo_existing /\ evidence[i].class \in Stale
        /\ evidence[i].class = "complete" => traj[i] = Kept
        /\ (redo_existing /\ evidence[i].class \in Stale) => traj[i] = Kept
        /\ evidence[i].class = "missing" => traj[i] = NoFile

C7_Witness ==
    \E i, j \in Loaded :
        /\ evidence[i].class = "complete" /\ traj[i] = Kept /\ pc[i] = "done"
        /\ Deleted(j)

\* ========================================================== scheduling
InFlight == {i \in Loaded : pc[i] = "exec"}

\* C8 as stated: never more than min(k, N) instances between their start and
\* their terminal state.
C8_AtMostMinInFlight == Cardinality(InFlight) <= Min(requested, n_instances)

\* C8 as amended: never more than max(1, min(k, N)); the sequential driver
\* runs one instance at a time also for a requested k below 1.
C8_AtMostPoolInFlight ==
    Cardinality(InFlight) <= IF num_workers <= 1 THEN 1 ELSE Min(requested, n_instances)

C8_Witness ==
    /\ requested = 2
    /\ Cardinality(InFlight) = 2
    /\ queue # <<>>

\* C9: in the sequential driver an instance is not started before every
\* instance ahead of it in the list has reached its terminal state, so the
\* instances finish in input order, one at a time.
C9_SequentialInOrder ==
    num_workers <= 1 =>
        /\ \A i, j \in Loaded : (i < j /\ pc[j] # "queued") => pc[i] = "done"
        /\ Cardinality(InFlight) <= 1

C9_Witness ==
    /\ num_workers <= 1
    /\ n_instances = 3
    /\ pc[1] = "done" /\ pc[2] = "done" /\ pc[3] = "exec"

\* C10: in the sequential driver, once an instance has raised a run-fatal
\* error no further instance is started, and the terminal status and the
\* trajectory recorded for the instances before it stay as they are.
C10_FatalStopsSequential ==
    [][(num_workers <= 1 /\ \E b \in Loaded : outcome[b] = "fatal") =>
          /\ \A b \in Loaded : outcome[b] = "fatal" =>
                \A a \in Loaded : a < b => status[a] # NoStatus
          /\ pc' = pc
          /\ status' = status
          /\ traj' = traj
          /\ executed' = executed]_vars

C10_Witness ==
    /\ num_workers <= 1
    /\ n_instances = 3
    /\ status[1] = ExitStatus("submitted")
    /\ outcome[2] = "fatal"
    /\ pc[3] = "queued"
    /\ main_pc \in {"returned", "raised"}

\* ===================================================== failure handling
\* nothing has stopped the run: no run-fatal error, no interruption, and no
\* exception has left a run_instance call
Undisturbed ==
    /\ cancel = "none"
    /\ \A i \in Loaded : outcome[i] \in {"none", "ok", "error"} /\ exc[i] = "none"

\* C11: with raise_exceptions=false an ordinary exception of an instance is
\* contained: that instance, and only an instance that raised one, gets the
\* uncaught-exception status, nothing leaves run_instance or main(), and in a
\* run that nothing else stops every instance has its terminal status when
\* main() returns.
C11_ErrorIsIsolated ==
    ~raise_exceptions =>
        /\ \A i \in Loaded :
             /\ outcome[i] = "error" =>
                    status[i] = Uncaught /\ exc[i] = "none" /\ pc[i] = "done"
             /\ status[i] = Uncaught => outcome[i] = "error"
        /\ Undisturbed =>
             /\ main_exc = "none"
             /\ \A i \in Loaded : pc[i] # "cancelled"
             /\ main_pc = "returned" => \A i \in Loaded : status[i] # NoStatus

C11_Witness ==
    /\ ~raise_exceptions
    /\ n_instances = 3
    /\ main_pc = "returned"
    /\ status[1] = ExitStatus("submitted")
    /\ status[2] = Uncaught
    /\ status[3] = ExitStatus("submitted")

\* C12: in the concurrent driver, once a KeyboardInterrupt has cancelled the
\* queued instances, no further instance is started, and the instances that
\* were in flight have run to completion when the final report is printed
\* and when the predictions are merged.
C12_InterruptDrainsBeforeReport ==
    [][(num_workers > 1 /\ cancel = "KeyboardInterrupt") =>
          /\ started' = started
          /\ reports' = reports + 1 => \A i \in started : pc[i] # "exec"
          /\ merges' = merges + 1 => \A i \in started : pc[i] # "exec"]_vars

\* C13: a RunBatch for the model id "human" or "human_thought" with a
\* requested num_workers above 1 is not constructed: __init__ raises
\* ValueError, no hook is initialised and no instance is started.
C13_HumanInParallelIsRefused ==
    (model_id \in {"human", "human_thought"} /\ requested > 1) =>
        /\ main_pc \in {"new", "raised"}
        /\ main_pc = "raised" => main_exc = "ValueError"
        /\ hook_events = <<>>
        /\ started = {}

\* C14: in the concurrent driver with raise_exceptions=false, once an
\* instance has raised a run-fatal error no instance that had not started
\* by then is started.
C14_FatalStopsAdmission ==
    [][(num_workers > 1 /\ ~raise_exceptions /\ \E b \in Loaded : outcome[b] = "fatal")
          => started' = started]_vars

\* a run-fatal error of an instance has made the driver stop
FatalStop ==
    /\ cancel = "_BreakLoop"
    /\ \E b \in Loaded : outcome[b] = "fatal" /\ exc[b] = "_BreakLoop"

\* C15 as stated: after a run-fatal error the concurrent driver can be left
\* at once, whether or not instances are still in flight.
C15_LeftWithoutWaiting ==
    (num_workers > 1 /\ FatalStop /\ main_pc = "join") => ENABLED Join

\* C15 as amended: after a run-fatal error the queued instances are
\* cancelled at once and nothing is queued any more, but the driver is left
\* only when no instance is in flight any more.
C15_FatalCancelsThenDrains ==
    FatalStop =>
        /\ queue = <<>>
        /\ \A i \in Loaded : pc[i] = "exec" =>
               main_pc \in {"report", "join"}

C15_Witness ==
    /\ FatalStop
    /\ main_pc = "join"
    /\ reports = 1
    /\ \E i \in Loaded : pc[i] = "exec"
    /\ \E i \in Loaded : pc[i] = "cancelled"

\* C16: with raise_exceptions=true, once an exception of an instance has
\* left run_instance no further instance is started, and main() does not
\* return normally unless a cancellation came first.
C16_StrictStopsAtOnce ==
    [][(raise_exceptions /\ \E b \in Loaded : exc[b] \in {"error", "fatal"}) =>
          /\ started' = started
          /\ main_pc' \in {"merge", "on_end", "returned"} => cancel' # "none"]_vars

\* C17: a KeyboardInterrupt that arrives during run_instance never leaves
\* main(): the run ends with the merge.
C17_InterruptNeverLeavesMain ==
    \A i \in Loaded :
        (outcome[i] = "interrupt" \/ exc[i] = "KeyboardInterrupt") =>
            /\ main_exc # "KeyboardInterrupt"
            /\ main_pc = "returned" => merges = 1

\* ============================================================ the report
\* C18: the concurrent driver calls print_report exactly once, on every way
\* out of it: all futures completed, cancellation by KeyboardInterrupt or
\* _BreakLoop, and an exception taken from a future.
C18_ReportExactlyOnce ==
    num_workers > 1 =>
        /\ reports <= 1
        /\ main_pc \in {"join", "merge", "on_end", "returned", "raised"} => reports = 1
        /\ main_pc \in {"start", "submit", "wait", "report"} => reports = 0

C18_Witness ==
    /\ num_workers > 1
    /\ main_pc = "raised"
    /\ main_exc \in {"error", "fatal", "OSError"}
    /\ reports = 1

\* C19: in the concurrent driver no instance is executing at the moment
\* print_report is called.
C19_ReportAfterWorkersSettle ==
    [][(num_workers > 1 /\ reports' = reports + 1) =>
          \A i \in Loaded : pc[i] # "exec"]_vars

\* C20: when a run was cancelled, print_report has been called by the time
\* main() returns, in either driver.
C20_ReportBeforeReturn ==
    (cancel # "none" /\ main_pc = "returned") => reports >= 1

\* C21: when print_report is called, every loaded instance has a terminal
\* status in the Progress Tracker, also in a run that was stopped early.
C21_ReportHasEveryStatus ==
    [][reports' = reports + 1 => \A i \in Loaded : status[i] # NoStatus]_vars

C23_HandlersDetached ==
    \A i \in Loaded : pc[i] \in {"done", "raised"} => i \notin handlers

\* ================================================== one run_instance call
\* the places of a call in the trace
Pos(op) == {k \in DOMAIN trace : trace[k].op = op}

\* C24: when env.start() was attempted, env.close() is called, after it, on
\* every way out of _run_instance, and before run_instance records the
\* terminal status (on_instance_end or on_uncaught_exception).
C24_CloseOnEveryPath ==
    Pos("env.start") # {} =>
        /\ Pos("env.close") # {}
        /\ \A k \in Pos("env.start"), l \in Pos("env.close") : k < l
        /\ \A k \in Pos("env.close"),
              l \in Pos("on_instance_end") \cup Pos("on_uncaught_exception") : k < l

C24_Witness ==
    \E k \in DOMAIN trace :
        /\ k + 2 \in DOMAIN trace
        /\ trace[k].op = "_chooks.on_instance_start"
        /\ trace[k + 1].op = "env.close"
        /\ trace[k + 2] = EvStatus("on_uncaught_exception", Uncaught)

\* C29: the Progress Tracker's on_instance_end comes before the hooks'
\* on_instance_completed.
C29_TrackerBeforeHooks ==
    \A k \in Pos("on_instance_end"), l \in Pos("_chooks.on_instance_completed") : k < l

\* C30: a skipped instance is never reported to the Progress Tracker as
\* started.
C30_SkippedNeverStarted ==
    (\E k \in DOMAIN trace : trace[k].arg.kind = "skipped") =>
        Pos("on_instance_start") = {}

\* C30 (as the code has it): the Progress Tracker is told of the start
\* before the skip decision; a skipped instance is started, gets the one
\* terminal status "skipped (<prior exit status>)" and nothing else: no
\* call of _run_instance is made for it.
C30_SkippedIsStartedThenSkipped ==
    /\ \A k \in Pos("on_instance_start"), l \in Pos("should_skip") : k < l
    /\ \A k \in DOMAIN trace : trace[k].arg.kind = "skipped" =>
         /\ trace = <<Ev("_add_instance_log_file_handlers"), Ev("on_instance_start"),
                      Ev("should_skip"), EvStatus("on_instance_end", trace[k].arg),
                      Ev("_remove_instance_log_file_handlers")>>
         /\ Truthy(trace[k].arg.detail)
         /\ \A i \in Loaded : executed[i] = 0

C30_Witness ==
    /\ Len(trace) = 5
    /\ trace[2].op = "on_instance_start"
    /\ trace[4] = EvStatus("on_instance_end", Skipped("submitted"))

\* an ordinary exception left _run_instance, raised by a hook callback:
\* by on_instance_start (env.close follows it at once) or by
\* on_instance_completed (it was called, and _run_instance returned nothing)
HookRaised ==
    /\ \E i \in Loaded : outcome[i] = "error"
    /\ \/ \E k \in Pos("_chooks.on_instance_start") :
              k + 1 \in Pos("env.close")
       \/ Pos("_chooks.on_instance_completed") # {}

\* C32: an ordinary exception of a hook's on_instance_start or
\* on_instance_completed gets the instance the uncaught-exception status
\* and no other, after env.close(); it leaves run_instance only with
\* raise_exceptions; the calls after _run_instance are those made when
\* agent.run raises.
C32_HookExceptionIsClassified ==
    /\ HookRaised =>
         /\ Pos("on_instance_end") = {}
         /\ \E l \in Pos("on_uncaught_exception") :
              /\ trace[l].arg = Uncaught
              /\ \E k \in Pos("env.close") : k < l
         /\ trace[Len(trace)] = Ev("_remove_instance_log_file_handlers")
         /\ \A i \in Loaded : outcome[i] = "error" =>
              exc[i] = (IF raise_exceptions THEN "error" ELSE "none")
    /\ \A result \in Outcomes \ {"ok"} :
         LET calls(raising) == run_instance(TRUE, NoFile, TRUE, TRUE, result, raising)
             after(t, op) ==
                 SubSeq(t, (CHOOSE k \in DOMAIN t : t[k].op = op) + 1, Len(t))
         IN  /\ after(calls("_chooks.on_instance_start"), "_chooks.on_instance_start")
                  = after(calls("agent.run"), "agent.run")
             /\ after(calls("_chooks.on_instance_completed"),
                      "_chooks.on_instance_completed")
                  = after(calls("agent.run"), "env.close")

C32_Witness ==
    /\ HookRaised
    /\ Pos("_chooks.on_instance_completed") # {}
    /\ ~raise_exceptions
    /\ \E i \in Loaded : pc[i] = "done" /\ exc[i] = "none"

\* the terminal updates of the Progress Tracker in the trace
Terminals == Pos("on_instance_end") \cup Pos("on_uncaught_exception")

\* C34: in one run_instance call the Progress Tracker gets on_instance_start
\* once, before any terminal update, and at most one terminal update:
\* on_instance_end or on_uncaught_exception, never both.
C34_StartThenOneEnd ==
    /\ Cardinality(Pos("on_instance_start")) <= 1
    /\ Cardinality(Terminals) <= 1
    /\ \A l \in Terminals : \E k \in Pos("on_instance_start") : k < l
    /\ \A l \in Terminals : trace[l].arg # NoStatus
    /\ \A k \in DOMAIN trace : k \notin Terminals => trace[k].arg = NoStatus

C34_Witness ==
    /\ Pos("agent.run") # {}
    /\ Pos("on_uncaught_exception") # {}
    /\ Pos("on_instance_start") = {2}

\* C36: the instance run_instance was called with is, after the call, as it
\* was constructed.
C36_InstanceIsImmutable ==
    \A i \in Loaded : pc[i] # "queued" => descriptor_after(trace, i) = Descriptor(i)

\* ============================================================ from_config
\* C26: while no instance has been loaded (the manifest is missing or no
\* line of it converts) from_config is still running or has raised: no
\* RunBatch is constructed, so no hook is initialised, no instance is
\* started and nothing is merged.
C26_NoInstancesNoRun ==
    (manifest = NoManifest \/ \A k \in DOMAIN manifest : manifest[k] # "record") =>
        /\ main_pc \in {"from_config", "raised"}
        /\ main_pc = "raised" => main_exc \in {"FileNotFoundError", "ValueError"}
        /\ hook_events = <<>>
        /\ started = {} /\ handlers = {} /\ queue = <<>>
        /\ \A i \in Inst : pc[i] = "queued" /\ executed[i] = 0
        /\ merges = 0 /\ reports = 0

C26_Witness ==
    /\ manifest = <<"record without repo", "", "record without repo">>
    /\ main_pc = "raised"
    /\ main_exc = "ValueError"
    /\ hook_events = <<>>

C25_WorkersClampedToInstances ==
    /\ num_workers = (IF requested <= n_instances THEN requested ELSE n_instances)
    /\ num_workers <= n_instances
    /\ main_pc = "single" => (requested <= 1 \/ n_instances <= 1)
    /\ main_pc \in {"submit", "wait", "report", "join"} =>
           (requested > 1 /\ n_instances > 1)
    /\ (queue # <<>> \/ running # {}) => (requested > 1 /\ n_instances > 1)

C25_Witness ==
    /\ requested = 2
    /\ n_instances = 1
    /\ main_pc = "single"
    /\ pc[1] = "exec"

\* C27: every instance is a work item once: nothing is queued twice, a
\* queued item has not been started, an instance a thread is running is in
\* execution and not in the queue, and _run_instance is entered at most once
\* per instance.
C27_EachInstanceOnce ==
    /\ \A i \in Loaded : executed[i] <= 1
    /\ \A i \in Loaded : pc[i] = "exec" => executed[i] = 1
    /\ \A k, l \in 1..Len(queue) : queue[k] = queue[l] => k = l
    /\ \A k \in 1..Len(queue) : pc[queue[k]] = "queued" /\ queue[k] \notin running
    /\ running \subseteq {i \in Loaded : pc[i] = "exec"}
    /\ main_pc = "single" => \A i \in Loaded : pc[i] = "exec" => cur = i

C27_Witness ==
    /\ num_workers = 2
    /\ n_instances = 3
    /\ \A i \in Loaded : executed[i] = 1 /\ pc[i] = "done"

\* C33: a run_instance call sleeps a start delay only as the first work item
\* of its pool thread, so only while fewer calls have begun than there are
\* threads, and only while fewer instances have completed than there are
\* threads; in the sequential driver no call is delayed.
C33_OnlyFirstUnitIsDelayed ==
    [][\A i \in Loaded :
          (i \in delayed' /\ i \notin delayed) =>
              /\ Cardinality(started) < num_workers
              /\ n_completed < num_workers
              /\ main_pc # "single"]_vars

\* C38: the agent and the replay config built for an instance carry that
\* instance's id as their name.
C38_AgentCarriesItsInstanceName ==
    \A i \in Loaded :
        /\ pc[i] \in {"agent", "exec"} => built[i].agent = i
        /\ pc[i] = "exec" => built[i].replay = i

\* ======================================================== the run boundary
\* how often a run-level hook callback was made
Count(cb) == Cardinality({k \in DOMAIN hook_events : hook_events[k] = cb})

\* C31: the hooks are registered in list order, each after its on_init has
\* returned; a hook whose on_init raises is not registered, nor is any
\* later hook, whose on_init is not called; the exception leaves the
\* constructor and nothing of the run happens.
C31_HooksInitialisedInOrder ==
    /\ \A k \in DOMAIN chooks : chooks[k] = k
    /\ main_pc = "new" => (chooks = <<>> /\ Count("on_init") = 0)
    /\ main_exc = "on_init" =>
         /\ main_pc = "raised"
         /\ Count("on_init") = Len(chooks) + 1
         /\ Count("on_start") = 0 /\ Count("on_end") = 0 /\ merges = 0 /\ reports = 0
         /\ started = {} /\ \A i \in Inst : pc[i] = "queued" /\ executed[i] = 0
    /\ (main_pc # "new" /\ main_exc # "on_init") => Count("on_init") = Len(chooks)
    /\ Count("on_start") >= 1 => Len(chooks) >= 1

C31_Witness ==
    /\ main_pc = "raised"
    /\ main_exc = "on_init"
    /\ chooks = <<1>>
    /\ Count("on_init") = 2

\* C35: _BreakLoop never leaves main(): the driver that catches it stops
\* (the loop ends, the queued work is cancelled), main() does not raise,
\* and without raise_exceptions no run-fatal error leaves main() either; a
\* run stopped by _BreakLoop returns after the merge and the run-end hooks.
C35_BreakLoopContained ==
    /\ main_exc # "_BreakLoop"
    /\ ~raise_exceptions => main_exc # "fatal"
    /\ cancel = "_BreakLoop" =>
         /\ main_exc = "none" /\ main_pc \notin {"raised", "single", "wait"}
         /\ main_pc = "returned" => (merges = 1 /\ Count("on_end") = 1)

C35_Witness ==
    /\ cancel = "_BreakLoop"
    /\ main_pc = "returned"
    /\ ~raise_exceptions
    /\ num_workers = 2
    /\ \E i \in Loaded : outcome[i] = "fatal"

\* C37: the run-start hooks are called once, before any instance starts;
\* the merge is made once, after the driver, when no instance is executing;
\* the run-end hooks are called once, after the merge; a main() that has
\* returned has made all three.
C37_RunLevelCallsOnce ==
    /\ Count("on_start") <= 1 /\ merges <= 1 /\ Count("on_end") <= 1
    /\ Count("on_start") = 0 =>
         (started = {} /\ handlers = {} /\ \A i \in Inst : pc[i] = "queued")
    /\ merges = 1 =>
         /\ Count("on_start") = 1
         /\ main_pc \in {"on_end", "returned"}
         /\ running = {} /\ queue = <<>> /\ \A i \in Loaded : pc[i] # "exec"
    /\ Count("on_end") = 1 => merges = 1
    /\ main_pc = "returned" =>
         hook_events = <<"on_init", "on_start", "on_end">> /\ merges = 1

C37_Witness ==
    /\ main_pc = "returned"
    /\ cancel = "none"
    /\ num_workers = 2
    /\ \A i \in Loaded : pc[i] = "done"
    /\ \E i \in Loaded : outcome[i] = "ok"

\* C39: when an exception leaves main(), no merge has been made and the
\* run-end hooks have not been called; both are made only by a main()
\* that no exception leaves.
C39_NoMergeWhenMainRaises ==
    /\ (main_pc = "raised" \/ main_exc # "none") =>
          (merges = 0 /\ preds = <<>> /\ Count("on_end") = 0)
    /\ (merges >= 1 \/ Count("on_end") >= 1) => main_exc = "none"

C39_Witness ==
    /\ main_pc = "raised"
    /\ raise_exceptions
    /\ num_workers = 2
    /\ main_exc = "error"
    /\ reports = 1

\* ============================================================ termination
\* the run was interrupted, or an instance ended with a run-fatal error
Stopped ==
    \/ cancel # "none"
    \/ \E i \in Loaded : outcome[i] \in {"fatal", "interrupt"} \/ exc[i] = "KeyboardInterrupt"

\* C40: without raise_exceptions, a run that is not interrupted and has no
\* run-fatal error ends with main() returned after the merge and the
\* run-end hooks, and with a terminal status for every loaded instance.
C40_RunTerminates ==
    ~raise_exceptions =>
        <>(\/ Stopped
           \/ /\ main_pc = "returned"
              /\ merges = 1 /\ Count("on_end") = 1
              /\ \A i \in Loaded : status[i] # NoStatus)
====
